---------------------------- MODULE Spec2Model ----------------------------
(***************************************************************************)
(* A model of fvid (src/fvid/fvid.py): a file is encrypted, wrapped in a   *)
(* JSON record, gzipped, cut into black/white frames and muxed into a      *)
(* video; decoding reverses the pipeline.                                  *)
(*                                                                         *)
(* Text is a sequence of code points and binary data a sequence of bytes   *)
(* (0..255); a bit string is a sequence over {0, 1}.                       *)
(***************************************************************************)
EXTENDS Integers, Sequences, FiniteSets, TLC

(***************************************************************************)
(* Bounds of the model.                                                    *)
(***************************************************************************)
MaxFileLen == 2        \* bytes in an input file
MaxNameLen == 2        \* characters in a file path
MaxWidth == 3          \* frame width in pixels
MaxHeight == 2         \* frame height in pixels
MaxBits == 7           \* bits in a bit string given to make_image_sequence
MaxFrames == 2         \* frames of the largest input file
MaxRuns == 3           \* runs of main()

(***************************************************************************)
(* State.  Three machines share the module: the container codec            *)
(* (SpecContainer), the frame sequencer (SpecFrames) and runs of main()    *)
(* over a file system that outlives them (Spec).                           *)
(***************************************************************************)
VARIABLES
    cpc,           \* position: "start", "built", then save_bits_to_file's steps
    in_bytes,      \* the bytes of the input file
    in_path,       \* get_bits_from_file's filepath argument
    ekey,          \* get_bits_from_file's key argument
    bits,          \* the container as a bit string
    altered,       \* the tag or the ciphertext was altered after the build
    sealed,        \* the tag and the ciphertext the build has produced
    dkey,          \* save_bits_to_file's key argument
    file_path,     \* save_bits_to_file's file_path argument, <<>> for None
    unzipped,      \* the bytes read through gzip
    record,       \* json.loads(...): the members of the record
    data,          \* tag, ciphertext and filename taken from the record
    plaintext,     \* bitstring = cipher.decrypt(ciphertext)
    verified,      \* cipher.verify(tag) has returned
    disk,          \* the files written by save_bits_to_file
    raised         \* the exception that ended save_bits_to_file, "" for none

cvars == <<cpc, in_bytes, in_path, ekey, bits, altered, sealed, dkey, file_path,
           unzipped, record, data, plaintext, verified, disk, raised>>

VARIABLES
    fpc,            \* position in make_image_sequence / the decoding loop
    resolution,     \* <<width, height>>
    bitstr,         \* make_image_sequence's bitstring argument
    bitlist,        \* the chunks still to be saved
    index,          \* the index of the next frame file
    chunks,         \* the chunks handed to the frame encoder, in order
    encoded_frames, \* encoded_frames_<i>.png, by i: a 1-bit raster
    decoded_frames, \* decoded_frames_<i>.png, by i: an RGB raster
    sequence_index, \* the number of frames read back so far
    dbits           \* the bits read back by get_bits_from_video's loop

fvars == <<fpc, resolution, bitstr, bitlist, index, chunks, encoded_frames,
           decoded_frames, sequence_index, dbits>>

VARIABLES
    pc,             \* position in main()
    run,            \* the number of the current run of main()
    args,           \* the parsed command line
    FRAMERATE,      \* the module global
    mkey,           \* key = get_password(args.password)
    mbits,          \* the chunks read from the file or from the video
    image_sequence, \* the frame files opened by get_bits_from_video, in order
    err,            \* the exception that ended the run, "" for none
    ffmpeg_calls,   \* the transcoder commands issued by this run
    read_input,     \* this run has read the input file
    dir_exists,     \* FRAMES_DIR exists
    frames,         \* the frame files in FRAMES_DIR
    videos,         \* the videos on disk, by path
    outputs,        \* the files written by decode runs
    clock           \* the file system's time stamp

mvars == <<pc, run, args, FRAMERATE, mkey, mbits, image_sequence, err, ffmpeg_calls,
           read_input, dir_exists, frames, videos, outputs, clock>>

vars == <<cvars, fvars, mvars>>

(***************************************************************************)
(* Generic helpers.                                                        *)
(***************************************************************************)
SeqsUpTo(S, lo, hi) == UNION {[1..n -> S] : n \in lo..hi}

RECURSIVE XorBits(_, _, _)
XorBits(a, b, n) ==
    IF n = 0 THEN 0
    ELSE ((a + b) % 2) + 2 * XorBits(a \div 2, b \div 2, n - 1)

Xor(a, b) == XorBits(a, b, 8)

\* the concatenation of a sequence of sequences (halving keeps it shallow)
RECURSIVE Flatten(_)
Flatten(ss) ==
    IF Len(ss) = 0 THEN <<>>
    ELSE IF Len(ss) = 1 THEN ss[1]
    ELSE LET m == Len(ss) \div 2
         IN  Flatten(SubSeq(ss, 1, m)) \o Flatten(SubSeq(ss, m + 1, Len(ss)))

\* the sum of f[lo..hi]
RECURSIVE SumRange(_, _, _)
SumRange(f, lo, hi) ==
    IF lo > hi THEN 0
    ELSE IF lo = hi THEN f[lo]
    ELSE LET m == (lo + hi) \div 2
         IN  SumRange(f, lo, m) + SumRange(f, m + 1, hi)

\* the positions of s, in order, that satisfy Test
Positions(s, lo, hi, Test(_)) ==
    SelectSeq([k \in 1..(IF hi >= lo THEN hi - lo + 1 ELSE 0) |-> lo + k - 1], Test)

(***************************************************************************)
(* bitstring: BitArray(bytes).bin and Bits(bin=...).bytes.                 *)
(***************************************************************************)
\* BitArray(zip).bin : most significant bit of each byte first
BitArrayBin(bytes) ==
    [i \in 1..(8 * Len(bytes)) |->
        (bytes[((i - 1) \div 8) + 1] \div (2 ^ (7 - ((i - 1) % 8)))) % 2]

ByteAt(bin, j) ==
    bin[8*j - 7] * 128 + bin[8*j - 6] * 64 + bin[8*j - 5] * 32 + bin[8*j - 4] * 16
      + bin[8*j - 3] * 8 + bin[8*j - 2] * 4 + bin[8*j - 1] * 2 + bin[8*j]

\* Bits(bin=bits).bytes : raises unless the length is a multiple of 8
BitsBytes(bin) ==
    IF Len(bin) % 8 # 0
    THEN [ok |-> FALSE, err |-> "InterpretError", val |-> <<>>]
    ELSE [ok |-> TRUE, err |-> "", val |-> [j \in 1..(Len(bin) \div 8) |-> ByteAt(bin, j)]]

(***************************************************************************)
(* base64.b64encode / base64.b64decode.                                    *)
(***************************************************************************)
B64Char(v) ==
    IF v < 26 THEN 65 + v
    ELSE IF v < 52 THEN 97 + (v - 26)
    ELSE IF v < 62 THEN 48 + (v - 52)
    ELSE IF v = 62 THEN 43 ELSE 47

IsB64Char(c) ==
    \/ c \in 65..90
    \/ c \in 97..122
    \/ c \in 48..57
    \/ c = 43
    \/ c = 47

B64Value(c) ==
    IF c \in 65..90 THEN c - 65
    ELSE IF c \in 97..122 THEN c - 97 + 26
    ELSE IF c \in 48..57 THEN c - 48 + 52
    ELSE IF c = 43 THEN 62 ELSE 63

ByteOr0(bs, i) == IF i <= Len(bs) THEN bs[i] ELSE 0

b64encode(bs) ==
    [p \in 1..(4 * ((Len(bs) + 2) \div 3)) |->
        LET g == (p - 1) \div 4
            k == (p - 1) % 4
            n24 == ByteOr0(bs, 3*g + 1) * 65536 + ByteOr0(bs, 3*g + 2) * 256
                     + ByteOr0(bs, 3*g + 3)
        IN  IF k = 2 /\ 3*g + 2 > Len(bs) THEN 61
            ELSE IF k = 3 /\ 3*g + 3 > Len(bs) THEN 61
            ELSE B64Char((n24 \div (64 ^ (3 - k))) % 64)]

\* characters outside the alphabet are discarded; the digits before the
\* padding must fill whole quads together with the padding
b64decode(s) ==
    LET digits == SelectSeq(s, IsB64Char)
        pads == Len(SelectSeq(s, LAMBDA c : c = 61))
        vals == [i \in 1..Len(digits) |-> B64Value(digits[i])]
        v(i) == IF i <= Len(vals) THEN vals[i] ELSE 0
        n == (Len(vals) * 6) \div 8
        r == Len(vals) % 4
    IN  IF r = 1 \/ (r # 0 /\ r + pads < 4)
        THEN [ok |-> FALSE, err |-> "binascii.Error", val |-> <<>>]
        ELSE [ok |-> TRUE, err |-> "",
              val |-> [j \in 1..n |->
                  LET g == (j - 1) \div 3
                      k == (j - 1) % 3
                      n24 == v(4*g + 1) * 262144 + v(4*g + 2) * 4096
                               + v(4*g + 3) * 64 + v(4*g + 4)
                  IN  (n24 \div (256 ^ (2 - k))) % 256]]

(***************************************************************************)
(* json.dumps / json.loads of the record {"tag", "data", "filename"}.      *)
(***************************************************************************)
HexDigit(v) == IF v < 10 THEN 48 + v ELSE 97 + (v - 10)

IsHex(c) == c \in 48..57 \/ c \in 97..102 \/ c \in 65..70

HexValue(c) ==
    IF c \in 48..57 THEN c - 48 ELSE IF c \in 97..102 THEN c - 97 + 10 ELSE c - 65 + 10

\* json.dumps with ensure_ascii: one character of a string
JsonEscapeChar(c) ==
    IF c = 34 THEN <<92, 34>>
    ELSE IF c = 92 THEN <<92, 92>>
    ELSE IF c = 10 THEN <<92, 110>>
    ELSE IF c = 13 THEN <<92, 114>>
    ELSE IF c = 9 THEN <<92, 116>>
    ELSE IF c = 8 THEN <<92, 98>>
    ELSE IF c = 12 THEN <<92, 102>>
    ELSE IF c < 32 \/ c > 126
         THEN <<92, 117, HexDigit((c \div 4096) % 16), HexDigit((c \div 256) % 16),
                HexDigit((c \div 16) % 16), HexDigit(c % 16)>>
    ELSE <<c>>

JsonString(s) == <<34>> \o Flatten([i \in 1..Len(s) |-> JsonEscapeChar(s[i])]) \o <<34>>

\* json.dumps({"tag": t, "data": d, "filename": f})
JsonDumps(tagText, dataText, filenameText) ==
    <<123>> \o JsonString(<<116, 97, 103>>) \o <<58, 32>> \o JsonString(tagText)
      \o <<44, 32>> \o JsonString(<<100, 97, 116, 97>>) \o <<58, 32>> \o JsonString(dataText)
      \o <<44, 32>> \o JsonString(<<102, 105, 108, 101, 110, 97, 109, 101>>) \o <<58, 32>>
      \o JsonString(filenameText) \o <<125>>

JsonFail == [ok |-> FALSE, val |-> <<>>, next |-> 0]

JsonUnescape(e) ==
    IF e = 110 THEN 10
    ELSE IF e = 114 THEN 13
    ELSE IF e = 116 THEN 9
    ELSE IF e = 98 THEN 8
    ELSE IF e = 102 THEN 12
    ELSE e

\* the number of backslashes that end just before position j of a string
\* literal whose first character is at position i
BackslashRun(s, i, j) ==
    CHOOSE k \in 0..(j - i) :
        /\ \A m \in 1..k : s[j - m] = 92
        /\ k = j - i \/ s[j - k - 1] # 92

\* the scanner of a string literal; i is the position after the opening
\* quote.  A backslash after an even run of backslashes starts an escape.
JsonScanString(s, i) ==
    LET EscStart(j) == j >= i /\ j <= Len(s) /\ s[j] = 92 /\ BackslashRun(s, i, j) % 2 = 0
        IsClose(j) == s[j] = 34 /\ BackslashRun(s, i, j) % 2 = 0
    IN
    IF ~\E j \in i..Len(s) : IsClose(j) THEN JsonFail
    ELSE
    LET close == CHOOSE j \in i..Len(s) : IsClose(j) /\ \A m \in i..(j - 1) : ~IsClose(m)
        Covered(j) == \/ EscStart(j - 1)
                      \/ \E k \in 2..5 : EscStart(j - k) /\ s[j - k + 1] = 117
        GoodEscape(j) ==
            \/ s[j + 1] \in {34, 92, 47, 98, 102, 110, 114, 116}
            \/ /\ s[j + 1] = 117
               /\ j + 5 < close
               /\ \A k \in 2..5 : IsHex(s[j + k])
        Emits(j) == ~Covered(j)
        Value(j) ==
            IF s[j] # 92 THEN s[j]
            ELSE IF s[j + 1] = 117
                 THEN HexValue(s[j + 2]) * 4096 + HexValue(s[j + 3]) * 256
                        + HexValue(s[j + 4]) * 16 + HexValue(s[j + 5])
            ELSE JsonUnescape(s[j + 1])
        at == Positions(s, i, close - 1, Emits)
    IN
    IF \E j \in i..(close - 1) :
           \/ EscStart(j) /\ ~GoodEscape(j)
           \/ ~Covered(j) /\ s[j] < 32
    THEN JsonFail
    ELSE [ok |-> TRUE, val |-> [k \in 1..Len(at) |-> Value(at[k])], next |-> close + 1]

IsJsonSpace(c) == c \in {32, 9, 10, 13}

RECURSIVE JsonSkipSpace(_, _)
JsonSkipSpace(s, i) ==
    IF i <= Len(s) /\ IsJsonSpace(s[i]) THEN JsonSkipSpace(s, i + 1) ELSE i

\* the members of an object whose values are strings; i is the position of
\* the next member; members is the sequence of <<key, value>> read so far
RECURSIVE JsonScanMembers(_, _, _)
JsonScanMembers(s, i, members) ==
    LET a == JsonSkipSpace(s, i) IN
    IF a > Len(s) \/ s[a] # 34 THEN JsonFail
    ELSE LET k == JsonScanString(s, a + 1) IN
    IF ~k.ok THEN JsonFail
    ELSE LET b == JsonSkipSpace(s, k.next) IN
    IF b > Len(s) \/ s[b] # 58 THEN JsonFail
    ELSE LET c == JsonSkipSpace(s, b + 1) IN
    IF c > Len(s) \/ s[c] # 34 THEN JsonFail
    ELSE LET v == JsonScanString(s, c + 1) IN
    IF ~v.ok THEN JsonFail
    ELSE LET d == JsonSkipSpace(s, v.next)
             got == Append(members, <<k.val, v.val>>) IN
    IF d > Len(s) THEN JsonFail
    ELSE IF s[d] = 44 THEN JsonScanMembers(s, d + 1, got)
    ELSE IF s[d] = 125 /\ JsonSkipSpace(s, d + 1) > Len(s)
         THEN [ok |-> TRUE, val |-> got, next |-> d + 1]
    ELSE JsonFail

\* json.loads of an object of string members
JsonLoads(s) ==
    LET a == JsonSkipSpace(s, 1) IN
    IF a > Len(s) \/ s[a] # 123 THEN JsonFail
    ELSE JsonScanMembers(s, a + 1, <<>>)

HasKey(members, key) == \E i \in 1..Len(members) : members[i][1] = key

\* data[key]: the last member of that name
GetKey(members, key) ==
    LET i == CHOOSE i \in 1..Len(members) :
                 /\ members[i][1] = key
                 /\ \A j \in (i + 1)..Len(members) : members[j][1] # key
    IN  members[i][2]

(***************************************************************************)
(* gzip.GzipFile: the member is a header, the DEFLATE stream (here one     *)
(* stored block), a checksum of the data and its length.                   *)
(***************************************************************************)
\* stands for CRC-32: a sum that depends on every byte and its position
Checksum(bs) == (SumRange([i \in 1..Len(bs) |-> i * (bs[i] + 1)], 1, Len(bs))) % 65536

LE16(n) == <<n % 256, (n \div 256) % 256>>

LE32(n) == <<n % 256, (n \div 256) % 256, (n \div 65536) % 256, (n \div 16777216) % 256>>

GzipHeader == <<31, 139, 8, 0, 0, 0, 0, 0, 2, 255>>

GzipCompress(bs) ==
    GzipHeader \o <<1>> \o LE16(Len(bs)) \o LE16(65535 - Len(bs)) \o bs
      \o LE32(Checksum(bs)) \o LE32(Len(bs))

GzipError(e) == [ok |-> FALSE, err |-> e, val |-> <<>>]

GzipDecompress(z) ==
    IF Len(z) < 2 THEN GzipError("EOFError")
    ELSE IF z[1] # 31 \/ z[2] # 139 THEN GzipError("BadGzipFile")
    ELSE IF Len(z) < 15 THEN GzipError("EOFError")
    ELSE IF z[3] # 8 \/ z[4] # 0 THEN GzipError("BadGzipFile")
    ELSE LET n == z[12] + 256 * z[13]
             nn == z[14] + 256 * z[15] IN
    IF z[11] # 1 \/ n + nn # 65535 THEN GzipError("zlib.error")
    ELSE IF Len(z) < 15 + n + 8 THEN GzipError("EOFError")
    ELSE LET bs == SubSeq(z, 16, 15 + n)
             trailer == SubSeq(z, 16 + n, 23 + n) IN
    IF trailer # LE32(Checksum(bs)) \o LE32(n) THEN GzipError("BadGzipFile")
    \* zero padding after the member is skipped; anything else must be a member
    ELSE IF \E i \in (24 + n)..Len(z) : z[i] # 0 THEN GzipError("BadGzipFile")
    ELSE [ok |-> TRUE, err |-> "", val |-> bs]


(***************************************************************************)
(* get_password: the key is the fixed default key or the PBKDF2 output.    *)
(* PBKDF2-HMAC-SHA512 is a symbolic one-way function: distinct passwords   *)
(* give distinct keys, and none of them is the default key.                *)
(***************************************************************************)
PasswordSeq == <<"default", "hunter2">>

Passwords == {PasswordSeq[i] : i \in 1..Len(PasswordSeq)}

\* args.password is None when -p is given without a value
NoPassword == "<None>"

DEFAULT_KEY == [kdf |-> "fixed", secret |-> "32 spaces"]

PBKDF2HMAC(password) == [kdf |-> "pbkdf2-sha512", secret |-> password]

\* what the user types when getpass.getpass asks
Typed == {"hunter2"}

\* typed is what getpass.getpass returns, read only when no password is given
get_password(password_provided, typed) ==
    IF password_provided = "default" THEN DEFAULT_KEY
    ELSE PBKDF2HMAC(IF password_provided = NoPassword THEN typed ELSE password_provided)

Keys == {get_password(p, t) : p \in Passwords \cup {NoPassword}, t \in Typed}

(***************************************************************************)
(* AES in EAX mode with the fixed nonce SALT: a stream cipher (CTR) whose  *)
(* key stream depends on the key, and a MAC over the ciphertext.  The MAC  *)
(* is idealised as collision free: it determines the key and ciphertext.   *)
(***************************************************************************)
KeyId(key) ==
    IF key.kdf = "fixed" THEN 0
    ELSE CHOOSE i \in 1..Len(PasswordSeq) : PasswordSeq[i] = key.secret

KeyStream(key, i) == (KeyId(key) * 67 + 31 * i + 5) % 256

\* cipher.encrypt / cipher.decrypt: CTR mode is its own inverse
EAXCrypt(key, bytes) == [i \in 1..Len(bytes) |-> Xor(bytes[i], KeyStream(key, i))]

\* cipher.digest
EAXDigest(key, ciphertext) ==
    <<(KeyId(key) * 89 + 17) % 256>>
      \o [i \in 1..Len(ciphertext) |-> Xor(ciphertext[i], KeyStream(key, i + 128))]

\* a check of the tag that forgets the key
EAXVerify_unkeyed(key, ciphertext, tag) ==
    Len(tag) = Len(ciphertext) + 1
      /\ \E k \in Keys : tag = EAXDigest(k, ciphertext)

\* cipher.verify(tag): raises ValueError unless the tag is the digest
EAXVerify(key, ciphertext, tag) == tag = EAXDigest(key, ciphertext)

(***************************************************************************)
(* get_bits_from_file.                                                     *)
(***************************************************************************)
\* str.encode("utf-8")
Utf8Encode(text) ==
    Flatten([i \in 1..Len(text) |->
        IF text[i] < 128 THEN <<text[i]>>
        ELSE IF text[i] < 2048 THEN <<192 + (text[i] \div 64), 128 + (text[i] % 64)>>
        ELSE <<224 + (text[i] \div 4096), 128 + ((text[i] \div 64) % 64),
               128 + (text[i] % 64)>>])

Utf8Fail == [ok |-> FALSE, val |-> <<>>]

\* bytes.decode("utf-8"): a character starts at every byte that is not a
\* continuation byte, and its continuation bytes must follow it
Utf8Decode(bytes) ==
    LET IsCont(i) == i <= Len(bytes) /\ bytes[i] \in 128..191
        IsStart(i) == ~IsCont(i)
        Good(i) ==
            \/ bytes[i] < 128 /\ ~IsCont(i + 1)
            \/ bytes[i] \in 194..223 /\ IsCont(i + 1) /\ ~IsCont(i + 2)
            \/ /\ bytes[i] \in 224..239 /\ IsCont(i + 1) /\ IsCont(i + 2) /\ ~IsCont(i + 3)
               /\ (bytes[i] - 224) * 4096 + (bytes[i + 1] - 128) * 64 >= 2048
        Value(i) ==
            IF bytes[i] < 128 THEN bytes[i]
            ELSE IF bytes[i] < 224 THEN (bytes[i] - 192) * 64 + (bytes[i + 1] - 128)
            ELSE (bytes[i] - 224) * 4096 + (bytes[i + 1] - 128) * 64 + (bytes[i + 2] - 128)
        at == Positions(bytes, 1, Len(bytes), IsStart)
    IN  IF IsCont(1) \/ \E i \in 1..Len(bytes) : IsStart(i) /\ ~Good(i)
        THEN Utf8Fail
        ELSE [ok |-> TRUE, val |-> [k \in 1..Len(at) |-> Value(at[k])]]

\* the container holding the given tag, ciphertext and file name
Serialize(tag, ciphertext, filepath) ==
    BitArrayBin(GzipCompress(Utf8Encode(
        JsonDumps(b64encode(tag), b64encode(ciphertext), filepath))))

\* ciphertext, tag = cipher.encrypt_and_digest(...)
EAXEncryptAndDigest(key, bytes) ==
    LET ciphertext == EAXCrypt(key, bytes)
    IN  [tag |-> EAXDigest(key, ciphertext), ciphertext |-> ciphertext]

\* filename = os.path.basename(filepath), which the record does not use
basename(filepath) ==
    IF ~\E i \in 1..Len(filepath) : filepath[i] = 47 THEN filepath
    ELSE SubSeq(filepath,
                1 + (CHOOSE i \in 1..Len(filepath) :
                        /\ filepath[i] = 47
                        /\ \A j \in (i + 1)..Len(filepath) : filepath[j] # 47),
                Len(filepath))

\* a build that records the base name in place of the path
get_bits_from_file_basename(contents, filepath, key) ==
    Serialize(EAXEncryptAndDigest(key, contents).tag,
              EAXEncryptAndDigest(key, contents).ciphertext, basename(filepath))

get_bits_from_file(contents, filepath, key) ==
    Serialize(EAXEncryptAndDigest(key, contents).tag,
              EAXEncryptAndDigest(key, contents).ciphertext, filepath)


(***************************************************************************)
(* The container codec as a state machine: get_bits_from_file builds the   *)
(* container of one file, the container may be altered on its way, and     *)
(* save_bits_to_file opens it, one statement group at a time.              *)
(***************************************************************************)
FileBytes == {0, 255}

\* a slash, a double quote, e with acute accent
NameChars == {47, 34, 233}

\* the paths of files: a path does not end in a slash
FilePaths == {nm \in SeqsUpTo(NameChars, 1, MaxNameLen) : nm[Len(nm)] # 47}

NoData == [tag |-> <<>>, ciphertext |-> <<>>, filename |-> <<>>]

OutputPaths == {<<>>, <<111>>}

NoSeal == [tag |-> <<>>, ciphertext |-> <<>>]

CInit ==
    /\ cpc = "start"
    /\ in_bytes \in SeqsUpTo(FileBytes, 0, MaxFileLen)
    /\ in_path \in FilePaths
    /\ ekey \in Keys
    /\ bits = <<>>
    /\ altered = FALSE
    /\ sealed = NoSeal
    /\ dkey = DEFAULT_KEY
    /\ file_path = <<>>
    /\ unzipped = <<>>
    /\ record = <<>>
    /\ data = NoData
    /\ plaintext = <<>>
    /\ verified = FALSE
    /\ disk = <<>>
    /\ raised = ""

\* bits = get_bits_from_file(filepath, key)
CBuild ==
    /\ UNCHANGED <<fvars, mvars>>
    /\ cpc = "start"
    /\ bits' = get_bits_from_file(in_bytes, in_path, ekey)
    /\ sealed' = EAXEncryptAndDigest(ekey, in_bytes)
    /\ cpc' = "built"
    /\ UNCHANGED <<in_bytes, in_path, ekey, altered, dkey, file_path, unzipped, record,
                   data, plaintext, verified, disk, raised>>

\* on its way, one byte of the tag or of the ciphertext changes in the
\* container
CAlter ==
    /\ UNCHANGED <<fvars, mvars>>
    /\ cpc = "built"
    /\ ~altered
    /\ \/ \E i \in 1..Len(sealed.tag) :
              bits' = Serialize([sealed.tag EXCEPT ![i] = Xor(@, 1)], sealed.ciphertext,
                                in_path)
       \/ \E i \in 1..Len(sealed.ciphertext) :
              bits' = Serialize(sealed.tag, [sealed.ciphertext EXCEPT ![i] = Xor(@, 1)],
                                in_path)
    /\ altered' = TRUE
    /\ UNCHANGED <<cpc, in_bytes, in_path, ekey, sealed, dkey, file_path, unzipped,
                   record, data, plaintext, verified, disk, raised>>

\* lines 203-211: Bits(bin=bits).bytes read through gzip.GzipFile
Unzip(bin) ==
    LET bytes == BitsBytes(bin)
    IN  IF ~bytes.ok THEN GzipError(bytes.err) ELSE GzipDecompress(bytes.val)

\* save_bits_to_file(file_path, bits, key) is called and unzips the bits
CUnzip ==
    /\ UNCHANGED <<fvars, mvars>>
    /\ cpc = "built"
    /\ \E k \in Keys, o \in OutputPaths :
           /\ dkey' = k
           /\ file_path' = o
    /\ LET r == Unzip(bits) IN
       /\ unzipped' = r.val
       /\ raised' = r.err
       /\ cpc' = IF r.ok THEN "unzipped" ELSE "failed"
    /\ UNCHANGED <<in_bytes, in_path, ekey, bits, altered, sealed, record, data,
                   plaintext, verified, disk>>

\* line 215: json.loads(bitstring.decode("utf-8"))
Loads(bytes) ==
    LET text == Utf8Decode(bytes)
        obj == JsonLoads(text.val)
    IN  IF ~text.ok THEN [ok |-> FALSE, err |-> "UnicodeDecodeError", val |-> <<>>]
        ELSE IF ~obj.ok THEN [ok |-> FALSE, err |-> "JSONDecodeError", val |-> <<>>]
        ELSE [ok |-> TRUE, err |-> "", val |-> obj.val]

CLoads ==
    /\ UNCHANGED <<fvars, mvars>>
    /\ cpc = "unzipped"
    /\ LET r == Loads(unzipped) IN
       /\ record' = r.val
       /\ raised' = r.err
       /\ cpc' = IF r.ok THEN "loaded" ELSE "failed"
    /\ UNCHANGED <<in_bytes, in_path, ekey, bits, altered, sealed, dkey, file_path,
                   unzipped, data, plaintext, verified, disk>>

TagKey == <<116, 97, 103>>

DataKey == <<100, 97, 116, 97>>

FilenameKey == <<102, 105, 108, 101, 110, 97, 109, 101>>

\* lines 218-221: data["tag"], data["data"] and data["filename"]
Fields(obj) ==
    IF \E k \in {TagKey, DataKey, FilenameKey} : ~HasKey(obj, k)
    THEN [ok |-> FALSE, err |-> "KeyError", val |-> NoData]
    ELSE LET tag == b64decode(GetKey(obj, TagKey))
             ciphertext == b64decode(GetKey(obj, DataKey))
         IN  IF ~tag.ok \/ ~ciphertext.ok
             THEN [ok |-> FALSE, err |-> "binascii.Error", val |-> NoData]
             ELSE [ok |-> TRUE, err |-> "",
                   val |-> [tag |-> tag.val, ciphertext |-> ciphertext.val,
                            filename |-> GetKey(obj, FilenameKey)]]

CFields ==
    /\ UNCHANGED <<fvars, mvars>>
    /\ cpc = "loaded"
    /\ LET r == Fields(record) IN
       /\ data' = r.val
       /\ raised' = r.err
       /\ cpc' = IF r.ok THEN "read" ELSE "failed"
    /\ UNCHANGED <<in_bytes, in_path, ekey, bits, altered, sealed, dkey, file_path,
                   unzipped, record, plaintext, verified, disk>>

\* cipher = AES.new(key, AES.MODE_EAX, nonce=SALT); cipher.decrypt(ciphertext)
CDecrypt ==
    /\ UNCHANGED <<fvars, mvars>>
    /\ cpc = "read"
    /\ plaintext' = EAXCrypt(dkey, data.ciphertext)
    /\ cpc' = "decrypted"
    /\ UNCHANGED <<in_bytes, in_path, ekey, bits, altered, sealed, dkey, file_path,
                   unzipped, record, data, verified, disk, raised>>

\* try: cipher.verify(tag) except ValueError: raise WrongPassword
CVerify ==
    /\ UNCHANGED <<fvars, mvars>>
    /\ cpc = "decrypted"
    /\ IF EAXVerify(dkey, data.ciphertext, data.tag)
       THEN /\ verified' = TRUE
            /\ cpc' = "verified"
            /\ raised' = ""
       ELSE /\ verified' = FALSE
            /\ cpc' = "failed"
            /\ raised' = "WrongPassword"
    /\ UNCHANGED <<in_bytes, in_path, ekey, bits, altered, sealed, dkey, file_path,
                   unzipped, record, data, plaintext, disk>>

\* the output path: the recorded file name unless a path was passed in
OutputPath(path, filename) == IF path = <<>> THEN filename ELSE path

\* with open(filepath, "wb") as f: bitstring.tofile(f)
CWrite ==
    /\ UNCHANGED <<fvars, mvars>>
    /\ cpc = "verified"
    /\ disk' = Append(disk, [path |-> OutputPath(file_path, data.filename),
                             bytes |-> plaintext])
    /\ cpc' = "written"
    /\ UNCHANGED <<in_bytes, in_path, ekey, bits, altered, sealed, dkey, file_path,
                   unzipped, record, data, plaintext, verified, raised>>

CNext ==
    \/ CBuild
    \/ CAlter
    \/ CUnzip
    \/ CLoads
    \/ CFields
    \/ CDecrypt
    \/ CVerify
    \/ CWrite



(***************************************************************************)
(* Frames: split_string_by_n, make_image_sequence, get_bits_from_image.    *)
(* An image is its size and its pixels by <<x, y>>, counted from 0.        *)
(***************************************************************************)
Min(a, b) == IF a < b THEN a ELSE b

\* for i in range(0, len(bitstring), n): bit_list.append(bitstring[i : i + n])
split_string_by_n(bitstring, n) ==
    [k \in 1..((Len(bitstring) + n - 1) \div n) |->
        SubSeq(bitstring, (k - 1) * n + 1, Min(k * n, Len(bitstring)))]

Zeros(n) == [i \in 1..n |-> 0]

\* a padding with "1"
PadLast_ones(list, set_size) ==
    [list EXCEPT ![Len(list)] = @ \o [i \in 1..(set_size - Len(@)) |-> 1]]

\* bitlist[-1] = bitlist[-1] + "0" * (set_size - len(bitlist[-1]))
PadLast(list, set_size) ==
    [list EXCEPT ![Len(list)] = @ \o Zeros(set_size - Len(@))]

\* the list left as it is, so that pop() takes the last chunk first
Reverse_omitted(list) == list

\* bitlist[::-1]
Reverse(list) == [i \in 1..Len(list) |-> list[Len(list) + 1 - i]]

Pixels(size) == (0..(size[1] - 1)) \X (0..(size[2] - 1))

\* Image.new("1", (width, height)); image.putdata(image_bits): the data fill
\* the image row by row, and a pixel without data keeps the colour 0
PutData(size, image_bits) ==
    [size |-> size,
     px |-> [p \in Pixels(size) |->
                LET i == p[2] * size[1] + p[1] + 1
                IN  IF i <= Len(image_bits) THEN image_bits[i] ELSE 0]]

\* image.save(...png) of a mode "1" image: a pixel is one bit, set when the
\* stored value is not 0
SavePng(image) ==
    [size |-> image.size,
     px |-> [p \in Pixels(image.size) |-> IF image.px[p] # 0 THEN 1 ELSE 0]]

\* the transcoder, there and back: a set bit is white, a clear bit black
Transcode(png) ==
    [size |-> png.size,
     px |-> [p \in Pixels(png.size) |->
                IF png.px[p] = 1 THEN <<255, 255, 255>> ELSE <<0, 0, 0>>]]

Abs(n) == IF n < 0 THEN 0 - n ELSE n

\* the test of get_bits_from_image on one pixel
PixelBit(pixel) ==
    IF /\ Abs(pixel[1] - 255) < Abs(pixel[1] - 0)
       /\ Abs(pixel[2] - 255) < Abs(pixel[2] - 0)
       /\ Abs(pixel[3] - 255) < Abs(pixel[3] - 0)
    THEN 1 ELSE 0

\* the loops nested the other way round
get_bits_from_image_by_column(image) ==
    LET width == image.size[1]
        height == image.size[2]
    IN  [i \in 1..(width * height) |->
            PixelBit(image.px[<<(i - 1) \div height, (i - 1) % height>>])]

\* for y in range(height): for x in range(width): bits += ...
get_bits_from_image(image) ==
    LET width == image.size[1]
        height == image.size[2]
    IN  [i \in 1..(width * height) |->
            PixelBit(image.px[<<(i - 1) % width, (i - 1) \div width>>])]

SetSize == resolution[1] * resolution[2]

FInit ==
    /\ fpc = "start"
    /\ resolution \in (1..MaxWidth) \X (1..MaxHeight)
    /\ bitstr \in SeqsUpTo({0, 1}, 0, MaxBits)
    /\ bitlist = <<>>
    /\ index = 1
    /\ chunks = <<>>
    /\ encoded_frames = <<>>
    /\ decoded_frames = <<>>
    /\ sequence_index = 0
    /\ dbits = <<>>

\* make_image_sequence up to bitlist = bitlist[::-1]; bitlist[-1] of an empty
\* list raises IndexError
FSplit ==
    /\ UNCHANGED <<cvars, mvars>>
    /\ fpc = "start"
    /\ LET list == split_string_by_n(bitstr, SetSize) IN
       IF list = <<>>
       THEN /\ fpc' = "failed"
            /\ bitlist' = <<>>
       ELSE /\ fpc' = "saving"
            /\ bitlist' = Reverse(PadLast(list, SetSize))
    /\ index' = 1
    /\ UNCHANGED <<resolution, bitstr, chunks, encoded_frames, decoded_frames,
                   sequence_index, dbits>>

\* the file FRAMES_DIR/<name>_<i>.png is written
WriteFrame(dir, i, image) ==
    [j \in (DOMAIN dir) \cup {i} |-> IF j = i THEN image ELSE dir[j]]

\* one pass of the loop that saves the frames
FSave ==
    /\ UNCHANGED <<cvars, mvars>>
    /\ fpc = "saving"
    /\ LET bitl == bitlist[Len(bitlist)] IN
       /\ bitlist' = SubSeq(bitlist, 1, Len(bitlist) - 1)
       /\ chunks' = Append(chunks, bitl)
       /\ encoded_frames' = WriteFrame(encoded_frames, index, SavePng(PutData(resolution, bitl)))
    /\ index' = index + 1
    /\ fpc' = IF Len(bitlist) = 1 THEN "encoded" ELSE "saving"
    /\ UNCHANGED <<resolution, bitstr, decoded_frames, sequence_index, dbits>>

\* make_video and the two ffmpeg commands of get_bits_from_video: frame i of
\* the video comes back as decoded_frames_<i>.png
FTranscode ==
    /\ UNCHANGED <<cvars, mvars>>
    /\ fpc = "encoded"
    /\ decoded_frames' = [i \in DOMAIN encoded_frames |-> Transcode(encoded_frames[i])]
    /\ fpc' = "demuxed"
    /\ UNCHANGED <<resolution, bitstr, bitlist, index, chunks, encoded_frames,
                   sequence_index, dbits>>

\* one pass of the loop bits += get_bits_from_image(image_sequence[index]),
\* the frames taken in the order of their indices
FRead ==
    /\ UNCHANGED <<cvars, mvars>>
    /\ fpc = "demuxed"
    /\ sequence_index + 1 \in DOMAIN decoded_frames
    /\ dbits' = dbits \o get_bits_from_image(decoded_frames[sequence_index + 1])
    /\ sequence_index' = sequence_index + 1
    /\ fpc' = IF sequence_index + 1 = Cardinality(DOMAIN decoded_frames)
              THEN "decoded" ELSE "demuxed"
    /\ UNCHANGED <<resolution, bitstr, bitlist, index, chunks, encoded_frames,
                   decoded_frames>>

FNext ==
    \/ FSplit
    \/ FSave
    \/ FTranscode
    \/ FRead


(***************************************************************************)
(* main().  A run is a process: its globals start afresh, the file system  *)
(* stays.  Here a bit string is the sequence of its frame-sized chunks,    *)
(* and a chunk is named by the container it is cut from: the file, the key *)
(* and the position.  A frame file carries a chunk.                        *)
(***************************************************************************)
Digits == {"0", "1", "2", "3", "4", "5", "6", "7", "8", "9"}

\* str.isdigit()
isdigit(str) == Len(str) > 0 /\ \A i \in 1..Len(str) : str[i] \in Digits

\* c in str
Contains(str, c) == \E i \in 1..Len(str) : str[i] = c

\* the condition with any() in place of all()
FramerateRejected_any(framerate) ==
    \/ ~isdigit(framerate) /\ ~Contains(framerate, "/")
    \/ \E x \in {"-", "/"} : Contains(framerate, x)

\* the condition of line 409 that raises NotImplementedError
FramerateRejected(framerate) ==
    \/ ~isdigit(framerate) /\ ~Contains(framerate, "/")
    \/ \A x \in {"-", "/"} : Contains(framerate, x)

PositiveInteger(str) == isdigit(str) /\ \E i \in 1..Len(str) : str[i] # "0"

\* a positive integer, or a fraction of two positive integers
ValidFramerate(str) ==
    \/ PositiveInteger(str)
    \/ \E k \in 1..Len(str) :
           /\ str[k] = "/"
           /\ PositiveInteger(SubSeq(str, 1, k - 1))
           /\ PositiveInteger(SubSeq(str, k + 1, Len(str)))

\* ffmpeg exits with an error on a frame rate it cannot read
FfmpegAcceptsRate(rate) == ValidFramerate(rate)

DefaultFramerate == <<"1">>

FramerateArgs ==
    {<<"1">>, <<"3">>, <<"1", "/", "3">>, <<"-", "1", "/", "3">>, <<"a", "b", "c">>,
     <<"1", "/", "-", "3">>, <<"x", "/", "y">>}

PlainFiles == {"a.txt", "b.txt"}

VideoPaths == {"file.mp4", "out"}

\* args.output when -o is not given
NoOutput == ""

\* the number of frames the container of a file fills
ContainerFrames(file) == IF file = "a.txt" THEN 1 ELSE MaxFrames

\* get_bits_from_file(args.input, key), as chunks
ContainerChunks(file, k) ==
    [i \in 1..ContainerFrames(file) |-> [file |-> file, key |-> k, k |-> i]]

NoArgs == [encode |-> FALSE, decode |-> FALSE, input |-> "a.txt", output |-> NoOutput,
           framerate |-> DefaultFramerate, password |-> "default"]

\* before the first run: no process, an empty file system
MRest ==
    /\ run = 0
    /\ args = NoArgs
    /\ FRAMERATE = DefaultFramerate
    /\ mkey = DEFAULT_KEY
    /\ mbits = <<>>
    /\ image_sequence = <<>>
    /\ err = ""
    /\ ffmpeg_calls = <<>>
    /\ read_input = FALSE
    /\ dir_exists = FALSE
    /\ frames = {}
    /\ videos = [p \in VideoPaths |-> <<>>]
    /\ outputs = {}
    /\ clock = 0

MInit ==
    /\ pc = "exited"
    /\ MRest

\* a process starts: args = parser.parse_args()
MStart ==
    /\ UNCHANGED <<cvars, fvars>>
    /\ pc = "exited"
    /\ run < MaxRuns
    /\ \E e \in BOOLEAN, d \in BOOLEAN, i \in PlainFiles \cup VideoPaths,
          o \in {NoOutput, "out"}, f \in FramerateArgs,
          p \in Passwords \cup {NoPassword} :
           /\ (e /\ ~d) => i \in PlainFiles
           /\ args' = [encode |-> e, decode |-> d, input |-> i, output |-> o,
                       framerate |-> f, password |-> p]
    /\ run' = run + 1
    /\ pc' = "setup"
    /\ FRAMERATE' = DefaultFramerate
    /\ mkey' = DEFAULT_KEY
    /\ mbits' = <<>>
    /\ image_sequence' = <<>>
    /\ err' = ""
    /\ ffmpeg_calls' = <<>>
    /\ read_input' = FALSE
    /\ clock' = clock + 1
    /\ UNCHANGED <<dir_exists, frames, videos, outputs>>

\* setup(): FRAMES_DIR is made unless it exists
MSetup ==
    /\ UNCHANGED <<cvars, fvars>>
    /\ pc = "setup"
    /\ dir_exists' = TRUE
    /\ pc' = "check"
    /\ UNCHANGED <<run, args, FRAMERATE, mkey, mbits, image_sequence, err, ffmpeg_calls,
                   read_input, frames, videos, outputs, clock>>

\* lines 384-391: the global FRAMERATE, the mode check, the key
MCheck ==
    /\ UNCHANGED <<cvars, fvars>>
    /\ pc = "check"
    /\ FRAMERATE' = IF args.framerate # FRAMERATE THEN args.framerate ELSE FRAMERATE
    /\ IF ~args.decode /\ ~args.encode
       THEN /\ err' = "MissingArgument"
            /\ pc' = "aborted"
            /\ mkey' = mkey
       ELSE /\ err' = ""
            /\ pc' = IF args.decode THEN "demux" ELSE "validate"
            /\ \E typed \in Typed : mkey' = get_password(args.password, typed)
    /\ UNCHANGED <<run, args, mbits, image_sequence, ffmpeg_calls, read_input,
                   dir_exists, frames, videos, outputs, clock>>


\* the frame files of one kind, "encoded" or "decoded"
FramesNamed(name) == {f \in frames : f.name = name}

\* the files <name>_1.png .. <name>_n.png are written, replacing files of
\* the same name; stamps[i] is the time stamp file i gets
WriteFrames(name, chunkseq, stamps) ==
    {f \in frames : ~(f.name = name /\ f.index \in 1..Len(chunkseq))}
      \cup {[name |-> name, index |-> i, chunk |-> chunkseq[i], mtime |-> stamps[i],
             run |-> run] : i \in 1..Len(chunkseq)}

\* the time stamps of n files written one after another from time t on: the
\* stamp of a file is that of the file before it, or the next one
Stamps(t, n) ==
    {st \in [1..n -> t..(t + n - 1)] :
        /\ st[1] = t
        /\ \A i \in 1..(n - 1) : st[i + 1] \in {st[i], st[i] + 1}}

\* lines 164-175 of get_bits_from_video: the video is re-timed to FRAMERATE
\* and cut into decoded_frames_<i>.png; _temp.mp4 is removed, which raises
\* FileNotFoundError when ffmpeg has written none
MDemux ==
    /\ UNCHANGED <<cvars, fvars>>
    /\ pc = "demux"
    /\ ffmpeg_calls' = Append(ffmpeg_calls, [cmd |-> "demux", framerate |-> FRAMERATE])
    /\ LET video == IF args.input \in VideoPaths THEN videos[args.input] ELSE <<>> IN
       IF video # <<>> /\ FfmpegAcceptsRate(FRAMERATE)
       THEN /\ \E st \in Stamps(clock, Len(video)) :
                   /\ frames' = WriteFrames("decoded", video, st)
                   /\ clock' = st[Len(video)]
            /\ pc' = "load"
            /\ err' = ""
       ELSE /\ pc' = "aborted"
            /\ err' = "FileNotFoundError"
            /\ UNCHANGED <<frames, clock>>
    /\ UNCHANGED <<run, args, FRAMERATE, mkey, mbits, image_sequence, read_input,
                   dir_exists, videos, outputs>>

\* the orders sorted(glob.glob(...), key=os.path.getmtime) can return: the
\* sort is stable, so files of one time stamp stay in the order of the
\* directory listing, which is any order
SortedByMtime(files) ==
    {sq \in [1..Cardinality(files) -> files] :
        /\ \A i, j \in 1..Cardinality(files) : i # j => sq[i] # sq[j]
        /\ \A i, j \in 1..Cardinality(files) : i < j => sq[i].mtime <= sq[j].mtime}

\* lines 177-191 of get_bits_from_video: the frames are opened and read
MLoad ==
    /\ UNCHANGED <<cvars, fvars>>
    /\ pc = "load"
    /\ \E sq \in SortedByMtime(FramesNamed("decoded")) :
           /\ image_sequence' = sq
           /\ mbits' = [i \in 1..Len(sq) |-> sq[i].chunk]
    /\ pc' = "save"
    /\ UNCHANGED <<run, args, FRAMERATE, mkey, err, ffmpeg_calls, read_input,
                   dir_exists, frames, videos, outputs, clock>>

\* the result of save_bits_to_file on a bit string: the chunks of one
\* container in order open under its key; anything else is no gzip stream
SaveResult(chunkseq, k) ==
    IF chunkseq # <<>> /\ chunkseq = ContainerChunks(chunkseq[1].file, chunkseq[1].key)
    THEN IF k = chunkseq[1].key THEN "" ELSE "WrongPassword"
    ELSE "BadGzipFile"

\* save_bits_to_file(file_path, bits, key)
MSave ==
    /\ UNCHANGED <<cvars, fvars>>
    /\ pc = "save"
    /\ err' = SaveResult(mbits, mkey)
    /\ IF SaveResult(mbits, mkey) = ""
       THEN LET path == IF args.output = NoOutput THEN mbits[1].file ELSE args.output IN
            /\ outputs' = outputs \cup {[path |-> path, file |-> mbits[1].file]}
            /\ videos' = [p \in VideoPaths |-> IF p = path THEN <<>> ELSE videos[p]]
            /\ pc' = "cleanup"
       ELSE /\ pc' = "aborted"
            /\ UNCHANGED <<outputs, videos>>
    /\ UNCHANGED <<run, args, FRAMERATE, mkey, mbits, image_sequence, ffmpeg_calls,
                   read_input, dir_exists, frames, clock>>

\* lines 409-415: the check of the frame rate in the encode branch
MValidate ==
    /\ UNCHANGED <<cvars, fvars>>
    /\ pc = "validate"
    /\ IF FramerateRejected(args.framerate)
       THEN /\ err' = "NotImplementedError"
            /\ pc' = "aborted"
       ELSE /\ err' = ""
            /\ pc' = "readfile"
    /\ UNCHANGED <<run, args, FRAMERATE, mkey, mbits, image_sequence, ffmpeg_calls,
                   read_input, dir_exists, frames, videos, outputs, clock>>

\* bits = get_bits_from_file(args.input, key)
MReadFile ==
    /\ UNCHANGED <<cvars, fvars>>
    /\ pc = "readfile"
    /\ mbits' = ContainerChunks(args.input, mkey)
    /\ read_input' = TRUE
    /\ pc' = "images"
    /\ UNCHANGED <<run, args, FRAMERATE, mkey, image_sequence, err, ffmpeg_calls,
                   dir_exists, frames, videos, outputs, clock>>

\* make_image_sequence(bits)
MImages ==
    /\ UNCHANGED <<cvars, fvars>>
    /\ pc = "images"
    /\ \E st \in Stamps(clock, Len(mbits)) :
           /\ frames' = WriteFrames("encoded", mbits, st)
           /\ clock' = st[Len(mbits)]
    /\ pc' = "video"
    /\ UNCHANGED <<run, args, FRAMERATE, mkey, mbits, image_sequence, err, ffmpeg_calls,
                   read_input, dir_exists, videos, outputs>>

\* the frames ffmpeg reads through encoded_frames_%d.png: the files numbered
\* 1, 2, .. up to the first number that is missing
MuxedFrames ==
    LET named == FramesNamed("encoded")
        n == CHOOSE m \in 0..Cardinality(named) :
                 /\ \A i \in 1..m : \E f \in named : f.index = i
                 /\ ~\E f \in named : f.index = m + 1
    IN  [i \in 1..n |-> CHOOSE f \in named : f.index = i]

\* make_video(video_file_path, args.framerate); ffmpeg asks before it
\* replaces a file, and writes nothing when it fails
MVideo ==
    /\ UNCHANGED <<cvars, fvars>>
    /\ pc = "video"
    /\ ffmpeg_calls' = Append(ffmpeg_calls, [cmd |-> "mux", framerate |-> args.framerate])
    /\ image_sequence' = MuxedFrames
    /\ LET outputfile == IF args.output = NoOutput THEN "file.mp4" ELSE args.output
           video == [i \in 1..Len(MuxedFrames) |-> MuxedFrames[i].chunk]
       IN  \E replace \in BOOLEAN :
               videos' = IF /\ FfmpegAcceptsRate(args.framerate)
                            /\ videos[outputfile] = <<>> \/ replace
                         THEN [videos EXCEPT ![outputfile] = video]
                         ELSE videos
    /\ pc' = "cleanup"
    /\ UNCHANGED <<run, args, FRAMERATE, mkey, mbits, err, read_input, dir_exists,
                   frames, outputs, clock>>

\* cleanup(): shutil.rmtree(FRAMES_DIR)
MCleanup ==
    /\ UNCHANGED <<cvars, fvars>>
    /\ pc = "cleanup"
    /\ dir_exists' = FALSE
    /\ frames' = {}
    /\ pc' = "done"
    /\ UNCHANGED <<run, args, FRAMERATE, mkey, mbits, image_sequence, err, ffmpeg_calls,
                   read_input, videos, outputs, clock>>

\* the process ends, and its variables with it
MExit ==
    /\ UNCHANGED <<cvars, fvars>>
    /\ pc \in {"done", "aborted"}
    /\ pc' = "exited"
    /\ args' = NoArgs
    /\ FRAMERATE' = DefaultFramerate
    /\ mkey' = DEFAULT_KEY
    /\ mbits' = <<>>
    /\ image_sequence' = <<>>
    /\ err' = ""
    /\ ffmpeg_calls' = <<>>
    /\ read_input' = FALSE
    /\ UNCHANGED <<run, dir_exists, frames, videos, outputs, clock>>

MNext ==
    \/ MStart
    \/ MExit
    \/ MSetup
    \/ MCheck
    \/ MDemux
    \/ MLoad
    \/ MSave
    \/ MValidate
    \/ MReadFile
    \/ MImages
    \/ MVideo
    \/ MCleanup

(***************************************************************************)
(* The specifications.  A machine that is not running keeps its variables  *)
(* at their initial values.                                                *)
(***************************************************************************)
CIdle ==
    /\ cpc = "off"
    /\ in_bytes = <<>>
    /\ in_path = <<>>
    /\ ekey = DEFAULT_KEY
    /\ bits = <<>>
    /\ altered = FALSE
    /\ sealed = NoSeal
    /\ dkey = DEFAULT_KEY
    /\ file_path = <<>>
    /\ unzipped = <<>>
    /\ record = <<>>
    /\ data = NoData
    /\ plaintext = <<>>
    /\ verified = FALSE
    /\ disk = <<>>
    /\ raised = ""

FIdle ==
    /\ fpc = "off"
    /\ resolution = <<1, 1>>
    /\ bitstr = <<>>
    /\ bitlist = <<>>
    /\ index = 1
    /\ chunks = <<>>
    /\ encoded_frames = <<>>
    /\ decoded_frames = <<>>
    /\ sequence_index = 0
    /\ dbits = <<>>

MIdle ==
    /\ pc = "off"
    /\ MRest

Init == CIdle /\ FIdle /\ MInit

Next == MNext

Spec == Init /\ [][Next]_vars

ContainerInit == CInit /\ FIdle /\ MIdle

SpecContainer == ContainerInit /\ [][CNext]_vars

FramesInit == CIdle /\ FInit /\ MIdle

SpecFrames == FramesInit /\ [][FNext]_vars


(***************************************************************************)
(* Properties of the container codec, under SpecContainer.                 *)
(***************************************************************************)
Decoding == cpc \in {"unzipped", "loaded", "read", "decrypted", "verified", "written", "failed"}

\* C1: a container built by get_bits_from_file and opened by
\* save_bits_to_file under the same key never fails, and what is written is
\* exactly the bytes of the input file, under the recorded name, which is
\* the path given to get_bits_from_file.
C1_RoundTrip ==
    (Decoding /\ dkey = ekey) =>
        /\ ~altered => cpc # "failed"
        /\ cpc = "written" =>
              /\ disk = <<[path |-> OutputPath(file_path, in_path), bytes |-> in_bytes]>>
              /\ data.filename = in_path

C1_Witness ==
    /\ cpc = "written"
    /\ dkey = ekey
    /\ ekey.kdf # "fixed"
    /\ in_bytes = <<0, 255>>
    /\ in_path = <<47, 34>>
    /\ file_path = <<>>

\* C2: a decode under another key than the build's, or of a container whose
\* tag or ciphertext was altered, ends in WrongPassword and writes nothing;
\* a file is written only after cipher.verify has returned.
C2_WrongKeyFails ==
    /\ disk # <<>> => verified /\ cpc = "written"
    /\ (Decoding /\ (dkey # ekey \/ altered)) =>
          /\ disk = <<>>
          /\ cpc \notin {"verified", "written"}
          /\ cpc = "failed" => raised = "WrongPassword"

C2_Witness ==
    /\ cpc = "failed"
    /\ raised = "WrongPassword"
    /\ dkey # ekey
    /\ ~altered
    /\ in_bytes # <<>>

(***************************************************************************)
(* Properties of the frames, under SpecFrames.                             *)
(***************************************************************************)
\* the number of frames of a bit string of length len in chunks of n
NumFrames(len, n) == (len + n - 1) \div n

White == <<255, 255, 255>>

Black == <<0, 0, 0>>

\* C6: a frame made of W*H bits is white where the bit is 1 and black where
\* it is 0, row by row, and reading it gives back the same W*H bits.
C6_FrameRoundTrip ==
    /\ \A k \in DOMAIN decoded_frames :
           /\ Len(chunks[k]) = SetSize
           /\ \A p \in Pixels(resolution) :
                  decoded_frames[k].px[p] =
                      IF chunks[k][p[2] * resolution[1] + p[1] + 1] = 1 THEN White ELSE Black
    /\ \A k \in 1..sequence_index :
           SubSeq(dbits, (k - 1) * SetSize + 1, k * SetSize) = chunks[k]

C6_Witness ==
    /\ fpc = "decoded"
    /\ resolution = <<3, 2>>
    /\ bitstr = <<1, 0, 0, 1, 1, 0>>
    /\ dbits = bitstr

\* C7: the bits read back from the frames, in the order of their indices,
\* are the bit string followed by fewer than W*H bits, all of them 0.
C7_SequenceRoundTrip ==
    fpc = "decoded" =>
        /\ Len(dbits) >= Len(bitstr)
        /\ SubSeq(dbits, 1, Len(bitstr)) = bitstr
        /\ \A i \in (Len(bitstr) + 1)..Len(dbits) : dbits[i] = 0
        /\ Len(dbits) - Len(bitstr) < SetSize

C7_Witness ==
    /\ fpc = "decoded"
    /\ resolution = <<3, 1>>
    /\ Len(bitstr) = 7
    /\ bitstr[7] = 1
    /\ Len(dbits) = 9

\* C8: the frames are written with the indices 1, 2, .. without a gap, in
\* that order, ceil(L / n) of them in all; frame k holds n bits, the bits
\* (k-1)*n .. k*n - 1 of the bit string, and 0 where the bit string has ended.
C8_FrameLayout ==
    /\ DOMAIN encoded_frames = 1..(index - 1)
    /\ fpc \in {"failed", "encoded", "demuxed", "decoded"} =>
           index - 1 = NumFrames(Len(bitstr), SetSize)
    /\ \A k \in DOMAIN encoded_frames :
           /\ encoded_frames[k].size = resolution
           /\ DOMAIN encoded_frames[k].px = Pixels(resolution)
           /\ \A j \in 1..SetSize :
                  encoded_frames[k].px[<<(j - 1) % resolution[1], (j - 1) \div resolution[1]>>]
                      = IF (k - 1) * SetSize + j <= Len(bitstr)
                        THEN bitstr[(k - 1) * SetSize + j] ELSE 0

C8_Witness ==
    /\ fpc = "encoded"
    /\ resolution = <<2, 2>>
    /\ Len(bitstr) = 7
    /\ DOMAIN encoded_frames = {1, 2}

(***************************************************************************)
(* Properties of the runs of main(), under Spec.                           *)
(***************************************************************************)
\* C3: when a run of main() has ended, by returning or by an exception, the
\* working directory is removed.
C3_CleanupAlways == pc \in {"done", "aborted"} => ~dir_exists

EncodeRun == args.encode /\ ~args.decode

\* C4: an encode run goes on with the frame rates "1/3" and "3" and raises
\* NotImplementedError on "-1/3", "abc" and "1/-3"; when it raises, the run
\* has not read the input file, written a frame or called the transcoder.
C4_FramerateChecked ==
    /\ (EncodeRun /\ pc \in {"readfile", "images", "video", "cleanup", "done"}) =>
           args.framerate \notin
               {<<"-", "1", "/", "3">>, <<"a", "b", "c">>, <<"1", "/", "-", "3">>}
    /\ (EncodeRun /\ args.framerate \in {<<"1", "/", "3">>, <<"3">>}) =>
           pc # "aborted"
    /\ err = "NotImplementedError" =>
           /\ EncodeRun
           /\ pc = "aborted"
           /\ ~read_input
           /\ ffmpeg_calls = <<>>
           /\ \A f \in frames : f.run # run

C4_Witness ==
    /\ pc = "aborted"
    /\ err = "NotImplementedError"
    /\ args.framerate = <<"1", "/", "-", "3">>
    /\ dir_exists

\* C5: every frame rate handed to the transcoder is a positive integer or a
\* fraction of two positive integers.
C5_OnlyValidFramerates ==
    \A i \in 1..Len(ffmpeg_calls) : ValidFramerate(ffmpeg_calls[i].framerate)

\* C9: the frames are read in the order of their indices.
C9_IndexOrder ==
    pc = "save" =>
        \A i, j \in 1..Len(image_sequence) :
            i < j => image_sequence[i].index < image_sequence[j].index

\* C10: when a run lists or muxes the frames, the working directory holds
\* only frames this run has written, and the frames it takes are its own.
C10_OwnFramesOnly ==
    /\ pc \in {"load", "video"} => \A f \in frames : f.run = run
    /\ pc \in {"save", "cleanup"} =>
           \A i \in 1..Len(image_sequence) : image_sequence[i].run = run

=============================================================================
